---- MODULE Spec2Model ----
(***************************************************************************)
(* Model of the calendar HTTP facade (src/app.py): the API-key gate, the   *)
(* credential lifecycle of get_calendar_service, and the five event       *)
(* handlers with their mapping between the simplified JSON event and the   *)
(* provider-native event.  Python dicts are functions from a set of keys;  *)
(* dict.get(k, d) is Get(d, k, default).  Each handler is one action: it    *)
(* records the request, the collaborator calls it made in order, and the   *)
(* response it returned.                                                   *)
(***************************************************************************)
EXTENDS Integers, Sequences, FiniteSets, TLC

VARIABLES
    GOOGLE_TOKEN,        \* inline token configuration value, read once at import
    GOOGLE_CREDENTIALS,  \* TRUE iff the inline client configuration is set
    credentials_json,    \* TRUE iff the file credentials.json exists
    token_pickle,        \* content of the file token.pickle, NoCreds if there is none
    now,                 \* the clock that credential expiry is compared with
    store,               \* remote event store of calendar 'primary': id -> native event
    request,             \* the request handled last
    calls,               \* collaborator calls made while handling it, in order
    response,            \* the response returned for it
    svc,                 \* get_calendar_service as run for it (inputs and outcome)
    refreshLog,          \* clock values of the successful refreshes of this process
    served               \* number of requests this process has handled

vars == <<GOOGLE_TOKEN, GOOGLE_CREDENTIALS, credentials_json, token_pickle, now,
          store, request, calls, response, svc, refreshLog, served>>

env == <<GOOGLE_TOKEN, GOOGLE_CREDENTIALS, credentials_json>>

----------------------------------------------------------------------------
(* Bounds *)

MaxTime == 1
TokenLifetime == 1
MaxEvents == 1
MaxRequests == 2

----------------------------------------------------------------------------
(* Python dict helpers *)

Get(d, k, default) == IF k \in DOMAIN d THEN d[k] ELSE default

Set(d, k, v) == (k :> v) @@ d

None == "None"

----------------------------------------------------------------------------
(* Configuration *)

API_KEY == "dev-key-for-local-testing"

Keys == {API_KEY, "wrong-key", None}

----------------------------------------------------------------------------
(* Credentials *)

NoCreds == [isNone |-> TRUE]

Creds(e, r) == [isNone |-> FALSE, expiry |-> e, refresh_token |-> r]

Expired(c, t) == t >= c.expiry

Valid(c, t) == ~Expired(c, t)

AbsentToken == [present |-> FALSE]

BadToken == [present |-> TRUE, parses |-> FALSE]

GoodToken(c) == [present |-> TRUE, parses |-> TRUE, creds |-> c]

StoredCreds == {Creds(e, r) : e \in {1, MaxTime + 1}, r \in BOOLEAN}

\* creds.refresh(Request()): the refreshed credential, valid for TokenLifetime
Refreshed(c, t) == Creds(t + TokenLifetime, c.refresh_token)

\* flow.run_local_server(port=0): a newly authorized credential
Authorized(t) == Creds(t + TokenLifetime, TRUE)

Raise(steps, file, msg) ==
    [ok |-> FALSE, creds |-> NoCreds, steps |-> steps, file |-> file, error |-> msg]

Service(steps, file, c) ==
    [ok |-> TRUE, creds |-> c, steps |-> Append(steps, "build"), file |-> file,
     error |-> None]

\* Lines 37-48: the credential loaded from the inline value or the token file
LoadCreds(token, file) ==
    IF token.present
    THEN IF token.parses THEN token.creds ELSE NoCreds
    ELSE IF ~file.isNone THEN file ELSE NoCreds

LoadSteps(token, file) ==
    IF token.present THEN <<"parse_inline">>
    ELSE IF ~file.isNone THEN <<"load_file">> ELSE <<>>

\* Lines 60-79: the interactive authorization branch
RunFlow(steps, file, inlineConfig, clientFile, t, flowOk) ==
    IF ~inlineConfig /\ ~clientFile
    THEN Raise(steps, file, "No credentials found. Set GOOGLE_CREDENTIALS environment variable or provide credentials.json")
    ELSE IF clientFile
         THEN IF flowOk
              THEN Service(steps \o <<"load_client_config", "run_local_server", "save_file">>,
                           Authorized(t), Authorized(t))
              ELSE Raise(steps \o <<"load_client_config", "run_local_server">>, file,
                         "authorization failed")
         ELSE Raise(Append(steps, "load_client_config"), file,
                    "Cannot run OAuth flow in production without local credentials.json")

\* get_calendar_service that authorizes interactively when the refresh fails
get_calendar_service_fallback(token, file, inlineConfig, clientFile, t, refreshOk, flowOk) ==
    LET creds == LoadCreds(token, file)
        steps == LoadSteps(token, file)
    IN  IF creds.isNone \/ ~Valid(creds, t)
        THEN IF ~creds.isNone /\ Expired(creds, t) /\ creds.refresh_token
             THEN IF refreshOk
                  THEN Service(Append(steps, "refresh"), file, Refreshed(creds, t))
                  ELSE RunFlow(Append(steps, "refresh"), file, inlineConfig, clientFile, t, flowOk)
             ELSE RunFlow(steps, file, inlineConfig, clientFile, t, flowOk)
        ELSE Service(steps, file, creds)

get_calendar_service(token, file, inlineConfig, clientFile, t, refreshOk, flowOk) ==
    LET creds == LoadCreds(token, file)
        steps == LoadSteps(token, file)
    IN  IF creds.isNone \/ ~Valid(creds, t)
        THEN IF ~creds.isNone /\ Expired(creds, t) /\ creds.refresh_token
             THEN IF refreshOk
                  THEN Service(Append(steps, "refresh"), file, Refreshed(creds, t))
                  ELSE Raise(Append(steps, "refresh"), file, "refresh failed")
             ELSE RunFlow(steps, file, inlineConfig, clientFile, t, flowOk)
        ELSE Service(steps, file, creds)

\* The runs of get_calendar_service the current environment allows: the refresh
\* and the interactive authorization each succeed or fail
Authenticate ==
    {[called |-> TRUE, fileBefore |-> token_pickle, t |-> now,
      out |-> get_calendar_service(GOOGLE_TOKEN, token_pickle, GOOGLE_CREDENTIALS,
                                   credentials_json, now, refreshOk, flowOk)] :
        refreshOk \in BOOLEAN, flowOk \in BOOLEAN}

NotCalled == [called |-> FALSE]

CredCalls(a) == [i \in 1..Len(a.out.steps) |-> [op |-> a.out.steps[i]]]

\* What every handler does with the outcome of get_calendar_service
AuthEffects(a) ==
    /\ svc' = a
    /\ token_pickle' = a.out.file
    /\ refreshLog' = IF a.out.ok /\ (\E i \in 1..Len(a.out.steps) : a.out.steps[i] = "refresh")
                     THEN Append(refreshLog, now) ELSE refreshLog

----------------------------------------------------------------------------
(* Responses *)

Json(status, body) == [status |-> status, body |-> body]

Error500(msg) == Json(500, [success |-> FALSE, error |-> msg])

\* One more request is received (the model stops after MaxRequests of them)
Receive(req) ==
    /\ served < MaxRequests
    /\ served' = served + 1
    /\ request' = req

\* require_api_key that only refuses a missing header
require_api_key_lax(api_key) == api_key = None

\* Lines 23-31: TRUE iff the decorator answers 401 instead of calling the handler
require_api_key(api_key) == api_key # API_KEY

Unauthorized == Json(401, [success |-> FALSE, error |-> "Invalid or missing API key"])

Rejected ==
    /\ response' = Unauthorized
    /\ calls' = <<>>
    /\ svc' = NotCalled
    /\ UNCHANGED <<store, token_pickle, refreshLog>>

\* The handler's except clause when get_calendar_service raised
AuthFailed(a) ==
    /\ AuthEffects(a)
    /\ calls' = CredCalls(a)
    /\ response' = Error500(a.out.error)
    /\ UNCHANGED store

----------------------------------------------------------------------------
(* Remote event store *)

EventIds == 1..MaxEvents

Link(id) == [eid |-> id]

Standup ==
    [id |-> 1, htmlLink |-> Link(1), summary |-> "Standup", description |-> "Daily",
     location |-> "Room 1",
     start |-> [dateTime |-> "2025-01-09T08:00:00", timeZone |-> "America/New_York"],
     end |-> [dateTime |-> "2025-01-09T08:15:00", timeZone |-> "America/New_York"]]

Holiday ==
    [id |-> 1, htmlLink |-> Link(1),
     start |-> [date |-> "2025-01-01"], end |-> [date |-> "2025-01-02"]]

----------------------------------------------------------------------------
(* DELETE /events/<event_id> *)

\* delete_event that deletes without looking at the outcome of the get
DeleteRemote_blind(st, event_id) ==
    [calls |-> <<[op |-> "get", eventId |-> event_id],
                 [op |-> "delete", eventId |-> event_id]>>,
     store |-> [i \in DOMAIN st \ {event_id} |-> st[i]],
     response |-> IF event_id \in DOMAIN st
                  THEN Json(200, [success |-> TRUE, message |-> "deleted"])
                  ELSE Error500("Not Found")]

\* Lines 226-236: the remote part of delete_event
DeleteRemote(st, event_id) ==
    IF event_id \notin DOMAIN st
    THEN [calls |-> <<[op |-> "get", eventId |-> event_id]>>,
          store |-> st,
          response |-> Error500("Not Found")]
    ELSE [calls |-> <<[op |-> "get", eventId |-> event_id],
                      [op |-> "delete", eventId |-> event_id]>>,
          store |-> [i \in DOMAIN st \ {event_id} |-> st[i]],
          response |-> Json(200, [success |-> TRUE,
                          message |-> "Event '" \o Get(st[event_id], "summary", "Untitled Event")
                                      \o "' deleted successfully"])]

delete_event(key, event_id) ==
    /\ Receive([route |-> "delete_event", key |-> key, event_id |-> event_id])
    /\ IF require_api_key(key) THEN Rejected
       ELSE \E a \in Authenticate :
            IF ~a.out.ok THEN AuthFailed(a)
            ELSE LET r == DeleteRemote(store, event_id) IN
                 /\ AuthEffects(a)
                 /\ calls' = CredCalls(a) \o r.calls
                 /\ store' = r.store
                 /\ response' = r.response
    /\ UNCHANGED <<env, now>>


----------------------------------------------------------------------------
(* Request inputs *)

BodyKeys == {"title", "description", "location", "date", "time", "end_time"}

FieldValue ==
    [title |-> "Review", description |-> "Agenda", location |-> "Room 2",
     date |-> "2025-01-10", time |-> "09:00", end_time |-> "10:30"]

\* request.json: every JSON object over the body keys
Bodies == {[k \in K |-> FieldValue[k]] : K \in SUBSET BodyKeys}

FewBodies == {[k \in K |-> FieldValue[k]] : K \in {{}, {"title", "date", "time"}}}

\* request.args of GET /events
ListArgs ==
    {<<>>, [date |-> "2025-01-10", days |-> "1", query |-> "Standup"],
     [date |-> "tomorrow"], [days |-> "many"]}

\* request.args of GET /events/search
SearchArgs == {<<>>, [query |-> ""], [query |-> "Standup"]}

----------------------------------------------------------------------------
(* Dates of GET /events *)

Today == "2025-01-09"

DayOf == ("2025-01-09" :> 9) @@ ("2025-01-10" :> 10)

\* datetime.strptime(date_str, '%Y-%m-%d'): the day of January 2025, or a ValueError
strptime(date_str) ==
    IF date_str \in DOMAIN DayOf THEN [ok |-> TRUE, day |-> DayOf[date_str]]
    ELSE [ok |-> FALSE]

IntOf == ("1" :> 1) @@ ("7" :> 7)

\* int(request.args.get('days', 7))
ParseDays(args) ==
    IF "days" \notin DOMAIN args THEN [ok |-> TRUE, n |-> 7]
    ELSE IF args["days"] \in DOMAIN IntOf THEN [ok |-> TRUE, n |-> IntOf[args["days"]]]
    ELSE [ok |-> FALSE]

\* datetime.isoformat() of midnight of a day of January 2025
isoformat(day) ==
    "2025-01-" \o (IF day < 10 THEN "0" ELSE "") \o ToString(day) \o "T00:00:00"

----------------------------------------------------------------------------
(* Mapping between the simplified and the provider-native event *)

\* The mapping that reads only the date of start and end
FormatListed_dateonly(event) ==
    [id |-> event["id"],
     title |-> Get(event, "summary", "No title"),
     start |-> Get(event["start"], "date", None),
     end |-> Get(event["end"], "date", None),
     description |-> Get(event, "description", ""),
     location |-> Get(event, "location", "")]

\* Lines 119-126 (get_events)
FormatListed(event) ==
    [id |-> event["id"],
     title |-> Get(event, "summary", "No title"),
     start |-> Get(event["start"], "dateTime", Get(event["start"], "date", None)),
     end |-> Get(event["end"], "dateTime", Get(event["end"], "date", None)),
     description |-> Get(event, "description", ""),
     location |-> Get(event, "location", "")]

\* Lines 266-273 (search_events)
FormatFound(event) ==
    [id |-> event["id"],
     title |-> Get(event, "summary", "No title"),
     start |-> Get(event["start"], "dateTime", Get(event["start"], "date", None)),
     end |-> Get(event["end"], "dateTime", Get(event["end"], "date", None)),
     description |-> Get(event, "description", ""),
     location |-> Get(event, "location", "")]

Timed(s) == [dateTime |-> s, timeZone |-> "America/New_York"]

\* create_event that ignores end_time
BuildEvent_noend(data) ==
    LET event == [summary |-> Get(data, "title", "New Event"),
                  description |-> Get(data, "description", ""),
                  location |-> Get(data, "location", "")]
    IN  IF "date" \in DOMAIN data /\ "time" \in DOMAIN data
        THEN LET start_datetime == data["date"] \o "T" \o data["time"] \o ":00"
             IN  Set(Set(event, "start", Timed(start_datetime)), "end", Timed(start_datetime))
        ELSE IF "date" \in DOMAIN data
             THEN Set(Set(event, "start", [date |-> data["date"]]),
                      "end", [date |-> data["date"]])
             ELSE event

\* Lines 145-162 (create_event): the provider-native event built from the body
BuildEvent(data) ==
    LET event == [summary |-> Get(data, "title", "New Event"),
                  description |-> Get(data, "description", ""),
                  location |-> Get(data, "location", "")]
    IN  IF "date" \in DOMAIN data /\ "time" \in DOMAIN data
        THEN LET start_datetime == data["date"] \o "T" \o data["time"] \o ":00"
                 end_datetime == data["date"] \o "T" \o Get(data, "end_time", data["time"]) \o ":00"
             IN  Set(Set(event, "start", Timed(start_datetime)), "end", Timed(end_datetime))
        ELSE IF "date" \in DOMAIN data
             THEN Set(Set(event, "start", [date |-> data["date"]]),
                      "end", [date |-> data["date"]])
             ELSE event

\* update_event that writes every text field, with create's defaults
OverlayEvent_full(event, data) ==
    LET e3 == Set(Set(Set(event, "summary", Get(data, "title", "New Event")),
                      "description", Get(data, "description", "")),
                  "location", Get(data, "location", ""))
    IN  IF "date" \in DOMAIN data /\ "time" \in DOMAIN data
        THEN Set(Set(e3, "start", Timed(data["date"] \o "T" \o data["time"] \o ":00")),
                 "end", Timed(data["date"] \o "T" \o Get(data, "end_time", data["time"]) \o ":00"))
        ELSE e3

\* Lines 188-201 (update_event): the fetched event with the body laid over it
OverlayEvent(event, data) ==
    LET e1 == IF "title" \in DOMAIN data THEN Set(event, "summary", data["title"]) ELSE event
        e2 == IF "description" \in DOMAIN data THEN Set(e1, "description", data["description"]) ELSE e1
        e3 == IF "location" \in DOMAIN data THEN Set(e2, "location", data["location"]) ELSE e2
    IN  IF "date" \in DOMAIN data /\ "time" \in DOMAIN data
        THEN LET start_datetime == data["date"] \o "T" \o data["time"] \o ":00"
                 end_datetime == data["date"] \o "T" \o Get(data, "end_time", data["time"]) \o ":00"
             IN  Set(Set(e3, "start", Timed(start_datetime)), "end", Timed(end_datetime))
        ELSE e3

----------------------------------------------------------------------------
(* Remote calls of the list, create and update handlers *)

\* events().list(...).execute(): some of the stored events, at most maxResults
ListResults(st, maxResults) ==
    {s \in UNION {[1..n -> DOMAIN st] : n \in 0..Cardinality(DOMAIN st)} :
        /\ Len(s) <= maxResults
        /\ \A i, j \in 1..Len(s) : i # j => s[i] # s[j]}

NewId(st) == CHOOSE i \in EventIds \ DOMAIN st : \A j \in EventIds \ DOMAIN st : i <= j

\* events().insert(body=event).execute(): the event as the provider stores it
Inserted(st, event) ==
    Set(Set(event, "id", NewId(st)), "htmlLink", Link(NewId(st)))

----------------------------------------------------------------------------
(* GET /events *)

\* Lines 91-132: the part of get_events after get_calendar_service
ListRemote(st, args, ids) ==
    LET date_str == Get(args, "date", Today)
        days == ParseDays(args)
        query == Get(args, "query", "")
        start_date == strptime(date_str)
    IN  IF ~days.ok THEN [calls |-> <<>>, response |-> Error500("invalid literal for int()")]
        ELSE IF ~start_date.ok
        THEN [calls |-> <<>>, response |-> Error500("time data does not match format")]
        ELSE LET end_day == start_date.day + days.n
                 formatted_events == [i \in 1..Len(ids) |-> FormatListed(st[ids[i]])]
             IN  [calls |-> <<[op |-> "list", calendarId |-> "primary",
                               timeMin |-> isoformat(start_date.day) \o "Z",
                               timeMax |-> isoformat(end_day) \o "Z",
                               maxResults |-> 50, singleEvents |-> TRUE,
                               orderBy |-> "startTime",
                               q |-> IF query # "" THEN query ELSE None]>>,
                  response |-> Json(200, [success |-> TRUE, events |-> formatted_events,
                                          count |-> Len(formatted_events)])]

get_events(key, args) ==
    /\ Receive([route |-> "get_events", key |-> key, args |-> args])
    /\ IF require_api_key(key) THEN Rejected
       ELSE \E a \in Authenticate :
            IF ~a.out.ok THEN AuthFailed(a)
            ELSE \E ids \in ListResults(store, 50) :
                 LET r == ListRemote(store, args, ids) IN
                 /\ AuthEffects(a)
                 /\ calls' = CredCalls(a) \o r.calls
                 /\ response' = r.response
                 /\ UNCHANGED store
    /\ UNCHANGED <<env, now>>

----------------------------------------------------------------------------
(* GET /events/search *)

\* Lines 247-280: the part of search_events after get_calendar_service
SearchRemote(st, args, ids) ==
    LET query == Get(args, "query", "")
        formatted_events == [i \in 1..Len(ids) |-> FormatFound(st[ids[i]])]
    IN  IF query = ""
        THEN [calls |-> <<>>,
              response |-> Json(400, [success |-> FALSE, error |-> "Query parameter required"])]
        ELSE [calls |-> <<[op |-> "list", calendarId |-> "primary", q |-> query,
                           maxResults |-> 25, singleEvents |-> TRUE,
                           orderBy |-> "startTime"]>>,
              response |-> Json(200, [success |-> TRUE, events |-> formatted_events,
                                      count |-> Len(formatted_events), query |-> query])]

search_events(key, args) ==
    /\ Receive([route |-> "search_events", key |-> key, args |-> args])
    /\ IF require_api_key(key) THEN Rejected
       ELSE \E a \in Authenticate :
            IF ~a.out.ok THEN AuthFailed(a)
            ELSE \E ids \in ListResults(store, 25) :
                 LET r == SearchRemote(store, args, ids) IN
                 /\ AuthEffects(a)
                 /\ calls' = CredCalls(a) \o r.calls
                 /\ response' = r.response
                 /\ UNCHANGED store
    /\ UNCHANGED <<env, now>>

----------------------------------------------------------------------------
(* POST /events *)

\* Lines 164-172: the remote part of create_event; the provider refuses an
\* event without start and end
InsertRemote(st, data, event) ==
    IF "start" \notin DOMAIN event \/ "end" \notin DOMAIN event
    THEN [calls |-> <<[op |-> "insert", calendarId |-> "primary", body |-> event]>>,
          store |-> st,
          response |-> Error500("Missing end time.")]
    ELSE LET created_event == Inserted(st, event) IN
         [calls |-> <<[op |-> "insert", calendarId |-> "primary", body |-> event]>>,
          store |-> (created_event["id"] :> created_event) @@ st,
          response |-> Json(200,
                [success |-> TRUE, event_id |-> created_event["id"],
                 event_link |-> Get(created_event, "htmlLink", None),
                 message |-> "Event '" \o Get(data, "title", None)
                             \o "' created successfully"])]

create_event(key, data) ==
    /\ Receive([route |-> "create_event", key |-> key, data |-> data])
    /\ IF require_api_key(key) THEN Rejected
       ELSE \E a \in Authenticate :
            IF ~a.out.ok THEN AuthFailed(a)
            ELSE LET r == InsertRemote(store, data, BuildEvent(data)) IN
                 /\ Cardinality(DOMAIN store) < MaxEvents
                 /\ AuthEffects(a)
                 /\ calls' = CredCalls(a) \o r.calls
                 /\ store' = r.store
                 /\ response' = r.response
    /\ UNCHANGED <<env, now>>

----------------------------------------------------------------------------
(* PUT /events/<event_id> *)

\* Lines 185-214: the remote part of update_event
UpdateRemote(st, event_id, data) ==
    IF event_id \notin DOMAIN st
    THEN [calls |-> <<[op |-> "get", eventId |-> event_id]>>,
          store |-> st,
          response |-> Error500("Not Found")]
    ELSE LET event == OverlayEvent(st[event_id], data) IN
         [calls |-> <<[op |-> "get", eventId |-> event_id],
                      [op |-> "update", eventId |-> event_id, body |-> event]>>,
          store |-> [st EXCEPT ![event_id] = event],
          response |-> Json(200, [success |-> TRUE, message |-> "Event updated successfully",
                                  event_link |-> Get(event, "htmlLink", None)])]

update_event(key, event_id, data) ==
    /\ Receive([route |-> "update_event", key |-> key, event_id |-> event_id, data |-> data])
    /\ IF require_api_key(key) THEN Rejected
       ELSE \E a \in Authenticate :
            IF ~a.out.ok THEN AuthFailed(a)
            ELSE LET r == UpdateRemote(store, event_id, data) IN
                 /\ AuthEffects(a)
                 /\ calls' = CredCalls(a) \o r.calls
                 /\ store' = r.store
                 /\ response' = r.response
    /\ UNCHANGED <<env, now>>

----------------------------------------------------------------------------
(* GET /health *)

health_check ==
    /\ Receive([route |-> "health_check"])
    /\ response' = Json(200, [status |-> "healthy", service |-> "calendar-api"])
    /\ calls' = <<>>
    /\ svc' = NotCalled
    /\ UNCHANGED <<env, now, store, token_pickle, refreshLog>>

----------------------------------------------------------------------------
(* Environment *)

Tick ==
    /\ now < MaxTime
    /\ now' = now + 1
    /\ UNCHANGED <<env, token_pickle, store, request, calls, response, svc, refreshLog, served>>

Idle ==
    /\ now = 0
    /\ request = [route |-> "none"]
    /\ calls = <<>>
    /\ response = Json(0, <<>>)
    /\ svc = NotCalled
    /\ refreshLog = <<>>
    /\ served = 0

\* Every configuration of the credential sources; a timed or an all-day event
Init ==
    /\ GOOGLE_TOKEN \in {AbsentToken, BadToken} \cup {GoodToken(c) : c \in StoredCreds}
    /\ GOOGLE_CREDENTIALS \in BOOLEAN
    /\ credentials_json \in BOOLEAN
    /\ token_pickle \in {NoCreds} \cup StoredCreds
    /\ store \in {(1 :> Standup), (1 :> Holiday)}
    /\ Idle

Requests(keys, bodies, listArgs) ==
    \E key \in keys :
        \/ \E args \in listArgs : get_events(key, args)
        \/ \E args \in SearchArgs : search_events(key, args)
        \/ \E data \in bodies : create_event(key, data)
        \/ \E id \in EventIds, data \in bodies : update_event(key, id, data)
        \/ \E id \in EventIds : delete_event(key, id)

Next ==
    \/ Requests(Keys, FewBodies, ListArgs)
    \/ health_check
    \/ Tick

Spec == Init /\ [][Next]_vars

\* A development set-up with a valid token file; authorized requests with every
\* request body
InitEvents ==
    /\ GOOGLE_TOKEN = AbsentToken
    /\ GOOGLE_CREDENTIALS = FALSE
    /\ credentials_json = TRUE
    /\ token_pickle = Creds(MaxTime + 1, TRUE)
    /\ store \in {<<>>, (1 :> Standup), (1 :> Holiday)}
    /\ Idle

NextEvents ==
    \/ Requests({API_KEY}, Bodies, ListArgs)
    \/ health_check

SpecEvents == InitEvents /\ [][NextEvents]_vars

----------------------------------------------------------------------------
(* Properties *)

EventRoutes == {"get_events", "create_event", "update_event", "delete_event", "search_events"}

StoreOps == {"list", "get", "insert", "update", "delete"}

CredentialOps ==
    {"parse_inline", "load_file", "refresh", "load_client_config", "run_local_server",
     "save_file", "build"}

Ops(log) == {log[i].op : i \in 1..Len(log)}

Count(log, op) == Cardinality({i \in 1..Len(log) : log[i].op = op})

Authorized401(req) == req.route \in EventRoutes /\ req.key = API_KEY

\* C1: a request to an event route whose X-API-Key is missing or wrong is
\* answered 401 with the fixed error body, and neither a credential step nor a
\* remote event-store call is made for it.
C1_KeyGate ==
    (request.route \in EventRoutes /\ request.key # API_KEY) =>
        /\ response = Json(401, [success |-> FALSE, error |-> "Invalid or missing API key"])
        /\ Ops(calls) \cap (CredentialOps \cup StoreOps) = {}
        /\ svc = NotCalled

C1_Witness ==
    /\ request.route = "update_event"
    /\ request.key = "wrong-key"
    /\ response.status = 401

\* C2: in delete_event the remote get precedes the remote delete; when the get
\* of an authorized DELETE fails, delete is never called, the store is
\* unchanged and the response is 500 with success = false.
C2_GetBeforeDelete ==
    [][(served' = served + 1 /\ request'.route = "delete_event") =>
         /\ \A i \in 1..Len(calls') :
               calls'[i].op = "delete" =>
                   \E j \in 1..(i - 1) : calls'[j].op = "get"
                                          /\ calls'[j].eventId = calls'[i].eventId
         /\ (Authorized401(request') /\ "get" \in Ops(calls')
             /\ request'.event_id \notin DOMAIN store) =>
               /\ "delete" \notin Ops(calls')
               /\ store' = store
               /\ response'.status = 500
               /\ response'.body.success = FALSE]_vars

C2_Witness ==
    /\ request.route = "delete_event"
    /\ request.key = API_KEY
    /\ "get" \in Ops(calls)
    /\ request.event_id \notin DOMAIN store
    /\ response.status = 500
    /\ "delete" \notin Ops(calls)

\* C3: an authorized search whose query is empty or missing is answered 400
\* whatever the state of the credential sources, and calls no remote
\* event-store operation.
C3_EmptyQuery400 ==
    (request.route = "search_events" /\ request.key = API_KEY
     /\ Get(request.args, "query", "") = "") =>
        /\ response.status = 400
        /\ Ops(calls) \cap StoreOps = {}

\* C4: the event sent to the remote update equals the fetched event except
\* that summary, description and location are replaced when title, description
\* and location are in the body, and start and end when both date and time are.
Replaced(data) ==
    {k \in {"summary"} : "title" \in DOMAIN data}
    \cup {k \in {"description", "location"} : k \in DOMAIN data}
    \cup {k \in {"start", "end"} : "date" \in DOMAIN data /\ "time" \in DOMAIN data}

C4_PartialUpdate ==
    [][(served' = served + 1 /\ request'.route = "update_event"
        /\ "update" \in Ops(calls')) =>
         LET fetched == store[request'.event_id]
             sent == calls'[Len(calls')].body
             data == request'.data
         IN  /\ \A k \in (DOMAIN fetched \cup DOMAIN sent) \ Replaced(data) :
                   /\ k \in DOMAIN fetched
                   /\ k \in DOMAIN sent
                   /\ sent[k] = fetched[k]
             /\ \A k \in Replaced(data) : k \in DOMAIN sent
             /\ "title" \in DOMAIN data => sent["summary"] = data["title"]
             /\ "description" \in DOMAIN data => sent["description"] = data["description"]
             /\ "location" \in DOMAIN data => sent["location"] = data["location"]
             /\ {"start", "end"} \subseteq Replaced(data) =>
                   /\ "dateTime" \in DOMAIN sent["start"]
                   /\ "dateTime" \in DOMAIN sent["end"]
             /\ store' = [store EXCEPT ![request'.event_id] = sent]]_vars

C4_Witness ==
    /\ request.route = "update_event"
    /\ "update" \in Ops(calls)
    /\ DOMAIN request.data = {"location", "date", "end_time"}
    /\ store[request.event_id] = Set(Standup, "location", "Room 2")

\* C5: on the file path (no inline token), a credential that
\* get_calendar_service had to produce, by refresh or by interactive
\* authorization, is the content of the token file afterwards.
C5_NewCredentialPersisted ==
    (svc.called /\ ~GOOGLE_TOKEN.present /\ svc.out.ok
     /\ Ops(calls) \cap {"refresh", "run_local_server"} # {}) =>
        token_pickle = svc.out.creds

\* C6: with an inline token that fails to parse, get_calendar_service ends as
\* it does in the same environment without an inline token.
Outcome(out) == [ok |-> out.ok, creds |-> out.creds, file |-> out.file]

C6_ParseFailureAsAbsent ==
    (svc.called /\ GOOGLE_TOKEN.present /\ ~GOOGLE_TOKEN.parses) =>
        Outcome(svc.out) \in
            {Outcome(get_calendar_service(AbsentToken, svc.fileBefore, GOOGLE_CREDENTIALS,
                                          credentials_json, svc.t, refreshOk, flowOk)) :
                refreshOk \in BOOLEAN, flowOk \in BOOLEAN}

\* C7: the inserted event of a body with date and time is timed, from
\* <date>T<time>:00 to <date>T<end_time>:00 (to its start when end_time is
\* not given), both in America/New_York; with date but no time it is all-day
\* with start.date = end.date = date.
C7_CreateDates ==
    (request.route = "create_event" /\ "insert" \in Ops(calls)) =>
        LET data == request.data
            body == calls[Len(calls)].body
        IN  /\ ("date" \in DOMAIN data /\ "time" \in DOMAIN data) =>
                 /\ body["start"] = [dateTime |-> data["date"] \o "T" \o data["time"] \o ":00",
                                     timeZone |-> "America/New_York"]
                 /\ body["end"]["timeZone"] = "America/New_York"
                 /\ DOMAIN body["end"] = {"dateTime", "timeZone"}
                 /\ "end_time" \in DOMAIN data =>
                       body["end"]["dateTime"] = data["date"] \o "T" \o data["end_time"] \o ":00"
                 /\ "end_time" \notin DOMAIN data =>
                       body["end"]["dateTime"] = body["start"]["dateTime"]
            /\ ("date" \in DOMAIN data /\ "time" \notin DOMAIN data) =>
                 /\ body["start"] = [date |-> data["date"]]
                 /\ body["end"] = [date |-> data["date"]]

C7_Witness ==
    /\ request.route = "create_event"
    /\ "insert" \in Ops(calls)
    /\ response.status = 200
    /\ DOMAIN request.data = {"date", "time", "end_time"}
    /\ store[response.body.event_id]["end"]["dateTime"] = "2025-01-10T10:30:00"

\* C8: every simplified event of a list or search response has the provider's
\* dateTime as start and end when the provider gives one and the date
\* otherwise, an id, and a title that is "No title" when the provider gives no
\* summary; both routes map every stored event alike.
C8_Mapping ==
    /\ \A id \in DOMAIN store : FormatListed(store[id]) = FormatFound(store[id])
    /\ (request.route \in {"get_events", "search_events"} /\ response.status = 200) =>
          \A i \in 1..Len(response.body.events) :
             LET ev == response.body.events[i]
                 native == store[ev.id]
             IN  /\ ev.id \in DOMAIN store
                 /\ \A side \in {"start", "end"} :
                       IF "dateTime" \in DOMAIN native[side]
                       THEN ev[side] = native[side]["dateTime"]
                       ELSE ev[side] = native[side]["date"]
                 /\ ev.title # None
                 /\ ev.title = IF "summary" \in DOMAIN native THEN native["summary"]
                               ELSE "No title"

C8_Witness ==
    /\ request.route = "get_events"
    /\ response.status = 200
    /\ response.body.count = 1
    /\ response.body.events[1].title = "No title"
    /\ response.body.events[1].start = "2025-01-01"
    /\ response.body.events[1].end = "2025-01-02"

\* C9: an authorized request makes at most one refresh attempt and repeats no
\* call; after a failed refresh there is no interactive authorization and no
\* remote event-store call, and the response is 500 with success = false and
\* the error message.
C9_SingleRefresh ==
    svc.called =>
        /\ \A op \in Ops(calls) : Count(calls, op) = 1
        /\ "refresh" \in Ops(calls) => "run_local_server" \notin Ops(calls)
        /\ ("refresh" \in Ops(calls) /\ ~svc.out.ok) =>
              /\ Ops(calls) \cap StoreOps = {}
              /\ response = Json(500, [success |-> FALSE, error |-> svc.out.error])

C9_Witness ==
    /\ svc.called
    /\ request.route = "get_events"
    /\ "refresh" \in Ops(calls)
    /\ ~svc.out.ok
    /\ response.status = 500

\* C10: with an inline token, a refreshed credential serves the later requests
\* of the process, so that a second refresh comes only after the refreshed
\* credential expired; and the token file is never written.
C10_RefreshedCredentialKept ==
    GOOGLE_TOKEN.present =>
        /\ \A i \in 1..(Len(refreshLog) - 1) :
              refreshLog[i + 1] >= refreshLog[i] + TokenLifetime
        /\ "save_file" \notin Ops(calls)

====
